---- MODULE Spec2Model ----
(***************************************************************************)
(* A model of preptools/preptools/prep.py: the session factory             *)
(* (create_reader, create_writer and their *_by_args forms), the           *)
(* on_send_request hook slot (PrepListener), the read dispatcher           *)
(* (PrepReader) and the transaction dispatcher (PrepWriter, TxHandler).    *)
(*                                                                         *)
(* Python values: None is the string "None" where a string is expected;    *)
(* an optional CLI attribute is <<>> (None) or <<v>> (the value v).        *)
(* A call's observable effects (what it printed, read, built, showed the   *)
(* callback, signed, sent, and what it returned or raised) are collected   *)
(* in a record, in the order the code produces them.                       *)
(***************************************************************************)
EXTENDS Integers, Sequences, FiniteSets, TLC

VARIABLES
    pc,          \* "start": no session yet; "ready": a session exists; "exited": sys.exit was called
    exit_status, \* the status given to sys.exit (meaningful when pc = "exited")
    via,         \* the factory function that returned the session
    session,     \* the PrepReader / PrepWriter object
    op,          \* the last call: its name, its inputs and its observable effects
    prev_gate,   \* what _call_on_send_request answered in the call before the last one
    rpc_calls,   \* RPC calls made by the process so far
    stdout,      \* error messages printed by the factory
    last_set,    \* the callable given to the most recent set_on_send_request call
    replaced,    \* what the slot held when that call was made
    cfg_in,      \* the input of _get_common_args: CLI args and the config file's content
    cfg_out      \* what _get_common_args returned

vars == <<pc, exit_status, via, session, op, prev_gate, rpc_calls, stdout,
          last_set, replaced, cfg_in, cfg_out>>

----------------------------------------------------------------------------
(* Bounds *)

\* Operations are run while the process has made fewer RPC calls than this.
MaxRpcCalls == 2

----------------------------------------------------------------------------
(* Protocol constants and external collaborators *)

ZERO_ADDRESS == "cx0000000000000000000000000000000000000000"
EOA_ADDRESS == "hx0000000000000000000000000000000000000000"

\* 2000 * 10 ** 18 is beyond the machine integers of the model checker: an
\* amount is kept as coefficient * 10 ^ exp10.
Amount(c, e) == [coef |-> c, exp10 |-> e]
StakeCoef == 2000
StakeExp10 == 18
DefaultStepLimit == 268435456     \* 0x10000000
TxHandlerStepLimit == 1342177280  \* 0x50000000
ProtocolVersion == 3

\* get_url: a named network shortcut becomes its endpoint, any other url is kept.
PredefinedUrls == [mainnet |-> "https://mainnet.endpoint/api/v3"]
get_url(url) == IF url \in DOMAIN PredefinedUrls THEN PredefinedUrls[url] ELSE url

\* get_default_config: the built-in defaults.
get_default_config == [url |-> "A", nid |-> 1, keystore |-> "ks_default"]

\* KeyWallet.load(path, password): the wallet of a keystore file.
KeyWallet(keystore_path) == [address |-> "hx_owner_of_" \o keystore_path]
NoWallet == [address |-> "None"]
get_address(owner) == owner.address

\* IconService(HTTPProvider(url)): a client handle; building it sends nothing.
IconService(url) == [url |-> url]

----------------------------------------------------------------------------
(* Input domains *)

Lines == {"n", "", "N"}
Responses == {"resp_a", "resp_b"}
KeyStoreErrors == {"Password is wrong.", "File is not found."}
LoadOutcomes == {"ok"} \cup KeyStoreErrors
Addresses == {"hx_prep_1", "hx_prep_2"}
TxHashes == {"0xh1", "0xh2"}
UrlValues == {"C", "mainnet"}
NidValues == {2}
KeystoreValues == {"ks_cli"}

EmptyDict == [k \in {} |-> "None"]
\* params dictionaries: an ordinary one, and one whose keys are named like
\* the routing fields of the envelope.
ParamsSet == { [name |-> "prep"],
               [value |-> "0x1", step_limit |-> "0x1", nid |-> "0x9",
                to |-> "hx_elsewhere", from_ |-> "hx_other", version |-> "0x2"] }

\* The environment of one call: the line the operator types, whether the
\* wallet signs, whether the RPC client answers, and its answer.
Env(line, sign_ok, rpc_ok, resp) ==
    [line |-> line, sign_ok |-> sign_ok, rpc_ok |-> rpc_ok, resp |-> resp]
Envs == { Env(l, TRUE, TRUE, r) : l \in Lines, r \in Responses }
            \cup { Env(l, FALSE, TRUE, "resp_a") : l \in Lines }
            \cup { Env(l, TRUE, FALSE, "resp_a") : l \in Lines }

Optional(S) == {<<>>} \cup { <<v>> : v \in S }
Restrict(f, D) == [k \in D |-> f[k]]
Attrs == {"url", "nid", "keystore", "config", "password", "yes"}
FullArgs == [url : Optional(UrlValues), nid : Optional(NidValues),
             keystore : Optional(KeystoreValues), config : Optional({"conf.json"}),
             password : Optional({"pw"}), yes : {<<TRUE>>, <<FALSE>>}]
\* argparse namespaces: an attribute may be missing, None, or set.
ArgsSet == { Restrict(a, D) : a \in FullArgs,
             D \in { Attrs \ M : M \in SUBSET {"url", "nid", "keystore", "config", "yes"} } }
FileBase == [url |-> "B", nid |-> 5, keystore |-> "ks_file", extra |-> "x"]
FileBaseAlias == [url |-> "mainnet", nid |-> 5, keystore |-> "ks_file", extra |-> "x"]
\* contents of the JSON config file
Files == { Restrict(b, D) : b \in {FileBase, FileBaseAlias},
           D \in SUBSET {"url", "nid", "keystore", "extra"} }

----------------------------------------------------------------------------
(* Effects of a call *)

Return(v) == [kind |-> "return", val |-> v]
Raise(e) == [kind |-> "raise", val |-> e]

\* Nothing observed yet; the call returns None.
NoEffects == [log |-> <<>>, built |-> <<>>, called |-> <<>>, shown |-> <<>>,
              printed |-> <<>>,
              lines |-> <<>>, gate |-> <<>>, signed |-> <<>>, sent |-> <<>>,
              queries |-> <<>>, replies |-> <<>>, result |-> Return("None")]

\* A gate that lets everything but None through (if ret is None: return).
Truthy_NotNone(v) == v # "None"

\* A gate that stops on False alone (if ret is False: return).
Truthy_NotFalse(v) == v # "False"

\* if not ret: only True is truthy among True, False and None.
Truthy(v) == v = "True"

----------------------------------------------------------------------------
(* Callbacks *)

NoCallback == [fn |-> "None", yes |-> FALSE]
\* functools.partial(_print_request, "Request")
PrintCallback == [fn |-> "_print_request", yes |-> FALSE]
\* functools.partial(_confirm_callback, yes=yes)
ConfirmCallback(yes) == [fn |-> "_confirm_callback", yes |-> yes]
Callbacks == {PrintCallback, ConfirmCallback(TRUE), ConfirmCallback(FALSE)}

\* _print_request prints the title and the content and returns nothing.
_print_request(content) ==
    [ret |-> "None", log |-> <<"print">>, printed |-> <<content>>, lines |-> <<>>]

\* A confirmation that takes "N" for "n" (ret.lower() == "n").
_confirm_callback_AnyCase(content, yes, env) ==
    LET p == _print_request(content)
    IN  IF ~yes
        THEN [ret |-> IF env.line \in {"n", "N"} THEN "False" ELSE "True",
              log |-> p.log \o <<"input">>,
              printed |-> p.printed,
              lines |-> <<env.line>>]
        ELSE [p EXCEPT !.ret = "True"]

_confirm_callback(content, yes, env) ==
    LET p == _print_request(content)
    IN  IF ~yes
        THEN [ret |-> IF env.line = "n" THEN "False" ELSE "True",
              log |-> p.log \o <<"input">>,
              printed |-> p.printed,
              lines |-> <<env.line>>]
        ELSE [p EXCEPT !.ret = "True"]

\* Calling the callable held in the slot with the content.
Invoke(callback, content, env) ==
    LET r == IF callback.fn = "_print_request"
             THEN _print_request(content)
             ELSE _confirm_callback(content, callback.yes, env)
    IN  [ret |-> r.ret, log |-> <<"callback">> \o r.log, printed |-> r.printed,
         lines |-> r.lines, shown |-> <<content>>, called |-> <<callback>>]

----------------------------------------------------------------------------
(* PrepListener *)

PrepListener == [on_send_request |-> NoCallback]

\* A slot that keeps the first callable it was given.
set_on_send_request_KeepFirst(self, func) ==
    IF self.on_send_request = NoCallback
    THEN [self EXCEPT !.on_send_request = func]
    ELSE self

set_on_send_request(self, func) == [self EXCEPT !.on_send_request = func]

on_send_request(self) == self.on_send_request

----------------------------------------------------------------------------
(* TxHandler *)

TxHandler(service, nid, callback) ==
    [icon_service |-> service, nid |-> nid, on_send_request |-> callback]

CallTransactionBuilder(from_, to, limit, version, nid, method, params, value) ==
    [from_ |-> from_, to |-> to, step_limit |-> limit, version |-> version,
     nid |-> nid, method |-> method, params |-> params, value |-> value]

\* transaction.to_dict(): the dictionary shown to the callback.
to_dict(transaction) ==
    [from_ |-> transaction.from_, to |-> transaction.to,
     step_limit |-> transaction.step_limit, version |-> transaction.version,
     nid |-> transaction.nid, data_type |-> "call",
     data |-> [method |-> transaction.method, params |-> transaction.params],
     value |-> transaction.value]

\* SignedTransaction(transaction, owner): the wallet signs the transaction.
SignedTransaction(transaction, owner) ==
    [transaction |-> transaction, signature |-> "sig_of_" \o owner.address]

\* An empty slot that approves (return True).
_call_on_send_request_Approve(self, content, env) ==
    IF self.on_send_request # NoCallback
    THEN Invoke(self.on_send_request, content, env)
    ELSE [ret |-> "True", log |-> <<>>, printed |-> <<>>, lines |-> <<>>,
          shown |-> <<>>, called |-> <<>>]

_call_on_send_request(self, content, env) ==
    IF self.on_send_request # NoCallback
    THEN Invoke(self.on_send_request, content, env)
    ELSE [ret |-> "False", log |-> <<>>, printed |-> <<>>, lines |-> <<>>,
          shown |-> <<>>, called |-> <<>>]

_call_tx(self, owner, to, method, params, limit, value, env) ==
    LET transaction == CallTransactionBuilder(get_address(owner), to, limit,
                           ProtocolVersion, self.nid, method, params, value)
        h == _call_on_send_request(self, to_dict(transaction), env)
        asked == [NoEffects EXCEPT
                     !.log = <<"get_address", "build">> \o h.log,
                     !.built = <<transaction>>,
                     !.called = h.called,
                     !.shown = h.shown,
                     !.printed = h.printed,
                     !.lines = h.lines,
                     !.gate = <<h.ret>>]
        signed == SignedTransaction(transaction, owner)
    IN  IF ~Truthy(h.ret)
        THEN asked
        ELSE IF ~env.sign_ok
        THEN [asked EXCEPT !.log = @ \o <<"sign">>,
                           !.result = Raise("SignError")]
        ELSE IF ~env.rpc_ok
        THEN [asked EXCEPT !.log = @ \o <<"sign", "send_transaction">>,
                           !.signed = <<signed>>,
                           !.sent = <<signed>>,
                           !.result = Raise("RpcError")]
        ELSE [asked EXCEPT !.log = @ \o <<"sign", "send_transaction">>,
                           !.signed = <<signed>>,
                           !.sent = <<signed>>,
                           !.replies = <<env.resp>>,
                           !.result = Return(env.resp)]

\* A dispatcher that sends without asking.
TxHandler_call_Unasked(self, owner, to, method, params, limit, value, env) ==
    LET r == _call_tx([self EXCEPT !.on_send_request = ConfirmCallback(TRUE)],
                      owner, to, method, params, limit, value, env)
    IN  [r EXCEPT !.log = <<"get_address", "build", "sign", "send_transaction">>,
                  !.called = <<>>, !.shown = <<>>, !.printed = <<>>,
                  !.gate = <<>>]

\* A dispatcher that drops the RPC client's response.
TxHandler_call_NoResult(self, owner, to, method, params, limit, value, env) ==
    LET r == _call_tx(self, owner, to, method, params, limit, value, env)
    IN  [r EXCEPT !.result = IF @.kind = "return" THEN Return("None") ELSE @]

\* A dispatcher that swallows a signing failure.
TxHandler_call_SwallowSign(self, owner, to, method, params, limit, value, env) ==
    LET r == _call_tx(self, owner, to, method, params, limit, value, env)
    IN  [r EXCEPT !.result = IF @ = Raise("SignError") THEN Return("None") ELSE @]

\* A dispatcher that builds the transaction again after the confirmation.
TxHandler_call_Rebuilt(self, owner, to, method, params, limit, value, env) ==
    LET r == _call_tx(self, owner, to, method, params, limit, value, env)
        again == SignedTransaction(
                     CallTransactionBuilder(get_address(owner), to,
                         TxHandlerStepLimit, ProtocolVersion, self.nid, method,
                         params, value), owner)
    IN  IF r.sent = <<>> THEN r
        ELSE [r EXCEPT !.signed = <<again>>, !.sent = <<again>>]

TxHandler_call(self, owner, to, method, params, limit, value, env) ==
    _call_tx(self, owner, to, method, params, limit, value, env)

----------------------------------------------------------------------------
(* PrepWriter *)

NoSession == [kind |-> "none", icon_service |-> IconService("None"), nid |-> 0,
              owner |-> NoWallet, from_ |-> "None", on_send_request |-> NoCallback]

PrepWriter(service, nid, owner) ==
    [kind |-> "writer", icon_service |-> service, nid |-> nid, owner |-> owner,
     from_ |-> "None", on_send_request |-> PrepListener.on_send_request]

_create_tx_handler(self) ==
    TxHandler(self.icon_service, self.nid, on_send_request(self))

\* A writer that addresses the placeholder account instead of the contract.
PrepWriter_call_ToEoa(self, method, params, step_limit, value, env) ==
    TxHandler_call(_create_tx_handler(self), self.owner, EOA_ADDRESS, method,
                   params, step_limit, value, env)

\* A writer that leaves the step limit to TxHandler.call's default.
PrepWriter_call_HandlerLimit(self, method, params, step_limit, value, env) ==
    TxHandler_call(_create_tx_handler(self), self.owner, ZERO_ADDRESS, method,
                   params, TxHandlerStepLimit, value, env)

PrepWriter_call(self, method, params, step_limit, value, env) ==
    TxHandler_call(_create_tx_handler(self), self.owner, ZERO_ADDRESS, method,
                   params, step_limit, value, env)

\* A registration that leaves value at its default of 0.
register_prep_NoStake(self, params, env) ==
    PrepWriter_call(self, "registerPRep", params, DefaultStepLimit, Amount(0, 0),
                    env)

register_prep(self, params, env) ==
    PrepWriter_call(self, "registerPRep", params, DefaultStepLimit,
                    Amount(StakeCoef, StakeExp10), env)

unregister_prep(self, env) ==
    PrepWriter_call(self, "unregisterPRep", EmptyDict, DefaultStepLimit,
                    Amount(0, 0), env)

set_prep(self, params, env) ==
    PrepWriter_call(self, "setPRep", params, DefaultStepLimit, Amount(0, 0), env)

set_governance_variables(self, params, env) ==
    PrepWriter_call(self, "setGovernanceVariables", params, DefaultStepLimit,
                    Amount(0, 0), env)

----------------------------------------------------------------------------
(* PrepReader *)

PrepReader(service, nid, address) ==
    [kind |-> "reader", icon_service |-> service, nid |-> nid, owner |-> NoWallet,
     from_ |-> address, on_send_request |-> PrepListener.on_send_request]

CallBuilder(from_, to, method, params) ==
    [from_ |-> from_, to |-> to, method |-> method, params |-> params]

call_to_dict(call) ==
    [from_ |-> call.from_, to |-> call.to, data_type |-> "call",
     data |-> [method |-> call.method, params |-> call.params]]

\* self.on_send_request(call.to_dict()) calls whatever the slot holds: with
\* None in the slot Python raises TypeError before the RPC call.
PrepReader_call(self, method, params, env) ==
    LET call == CallBuilder(self.from_, ZERO_ADDRESS, method, params)
        built == [NoEffects EXCEPT !.log = <<"build">>, !.built = <<call>>]
        h == Invoke(on_send_request(self), call_to_dict(call), env)
        told == [built EXCEPT !.log = @ \o h.log \o <<"call">>,
                              !.called = h.called,
                              !.shown = h.shown,
                              !.printed = h.printed,
                              !.lines = h.lines,
                              !.queries = <<call>>]
    IN  IF on_send_request(self) = NoCallback
        THEN [built EXCEPT !.result = Raise("TypeError")]
        ELSE IF ~env.rpc_ok
        THEN [told EXCEPT !.result = Raise("RpcError")]
        ELSE [told EXCEPT !.replies = <<env.resp>>, !.result = Return(env.resp)]

\* A lookup that asks a second time when the first call fails.
Lookup_Retry(rpc_method, tx_hash, env) ==
    LET q == [lookup |-> rpc_method, tx_hash |-> tx_hash]
    IN  IF env.rpc_ok
        THEN [NoEffects EXCEPT !.log = <<rpc_method>>, !.queries = <<q>>,
                               !.replies = <<env.resp>>,
                               !.result = Return(env.resp)]
        ELSE [NoEffects EXCEPT !.log = <<rpc_method, rpc_method>>,
                               !.queries = <<q, q>>,
                               !.replies = <<env.resp>>,
                               !.result = Return(env.resp)]

Lookup(rpc_method, tx_hash, env) ==
    [NoEffects EXCEPT !.log = <<rpc_method>>,
                      !.queries = <<[lookup |-> rpc_method, tx_hash |-> tx_hash]>>,
                      !.replies = IF env.rpc_ok THEN <<env.resp>> ELSE <<>>,
                      !.result = IF env.rpc_ok THEN Return(env.resp)
                                 ELSE Raise("RpcError")]

\* A lookup that tells the hook, as the governance queries do.
_tx_result_Notifies(self, tx_hash, env) ==
    LET r == Lookup("get_transaction_result", tx_hash, env)
        h == Invoke(on_send_request(self), [tx_hash |-> tx_hash], env)
    IN  IF on_send_request(self) = NoCallback THEN r
        ELSE [r EXCEPT !.log = h.log \o @, !.called = h.called,
                       !.shown = h.shown, !.printed = h.printed,
                       !.lines = h.lines]

_tx_result(self, tx_hash, env) == Lookup("get_transaction_result", tx_hash, env)

_tx_by_hash(self, tx_hash, env) == Lookup("get_transaction", tx_hash, env)

get_prep(self, address, env) ==
    PrepReader_call(self, "getPRep", [address |-> address], env)

get_preps(self, params, env) == PrepReader_call(self, "getPReps", params, env)

get_tx_result(self, tx_hash, env) == _tx_result(self, tx_hash, env)

get_tx_by_hash(self, tx_hash, env) == _tx_by_hash(self, tx_hash, env)

----------------------------------------------------------------------------
(* Configuration *)

hasattr(args, attr) == attr \in DOMAIN args

IsNone(v) == v = <<>>

\* A resolution in which the configuration wins over the CLI.
_replace_attribute_ConfFirst(attr, args, conf) ==
    IF attr \in DOMAIN conf
    THEN conf[attr]
    ELSE args[attr][1]

_replace_attribute(attr, args, conf) ==
    IF hasattr(args, attr)
    THEN IF ~IsNone(args[attr]) THEN args[attr][1] ELSE conf[attr]
    ELSE conf[attr]

\* for k in tmp_conf: conf[k] = tmp_conf[k]
Overlay(conf, tmp_conf) ==
    [k \in DOMAIN conf \cup DOMAIN tmp_conf |->
        IF k \in DOMAIN tmp_conf THEN tmp_conf[k] ELSE conf[k]]

\* file is what json.load returns for the file args.config names.
_get_common_args(args, file) ==
    LET conf == IF hasattr(args, "config") /\ ~IsNone(args["config"])
                THEN Overlay(get_default_config, file)
                ELSE get_default_config
    IN  [url |-> get_url(_replace_attribute("url", args, conf)),
         nid |-> _replace_attribute("nid", args, conf),
         keystore |-> _replace_attribute("keystore", args, conf)]

----------------------------------------------------------------------------
(* Session factory.  A factory call yields the session it returns, or the   *)
(* exit status it ends the process with, and what it did on the way.        *)

\* registered: the callables the factory gave to set_on_send_request.
Built(s, log) ==
    [exited |-> FALSE, status |-> 0, session |-> s, log |-> log, stdout |-> <<>>,
     registered |-> <<>>]

Exited(status, log, out) ==
    [exited |-> TRUE, status |-> status, session |-> NoSession, log |-> log,
     stdout |-> out, registered |-> <<>>]

\* A reader factory that opens the default keystore.
create_reader_LoadsWallet(url, nid) ==
    Built([PrepReader(IconService(get_url(url)), nid, EOA_ADDRESS)
              EXCEPT !.owner = KeyWallet(get_default_config.keystore)],
          <<"get_url", "IconService", "KeyWallet.load">>)

create_reader(url, nid) ==
    Built(PrepReader(IconService(get_url(url)), nid, EOA_ADDRESS),
          <<"get_url", "IconService">>)

\* A factory that forgets to register the print callback.
create_reader_by_args_NoHook(args, file) ==
    LET c == _get_common_args(args, file)
        r == create_reader(c.url, c.nid)
    IN  Built(r.session, <<"_get_common_args">> \o r.log)

create_reader_by_args(args, file) ==
    LET c == _get_common_args(args, file)
        r == create_reader(c.url, c.nid)
    IN  [Built(set_on_send_request(r.session, PrintCallback),
               <<"_get_common_args">> \o r.log \o <<"set_on_send_request">>)
            EXCEPT !.registered = <<PrintCallback>>]

\* A factory that reports the keystore failure and carries on.
create_writer_NoExit(url, nid, keystore_path, password, load) ==
    LET log == <<"get_url", "IconService", "KeyWallet.load">>
    IN  IF load # "ok"
        THEN [Built(PrepWriter(IconService(get_url(url)), nid, NoWallet),
                    log \o <<"print">>) EXCEPT !.stdout = <<load>>]
        ELSE Built(PrepWriter(IconService(get_url(url)), nid, KeyWallet(keystore_path)),
                   log)

\* load is what KeyWallet.load does: "ok", or the message of the
\* KeyStoreException it raises.
create_writer(url, nid, keystore_path, password, load) ==
    LET log == <<"get_url", "IconService", "KeyWallet.load">>
    IN  IF load # "ok"
        THEN Exited(1, log \o <<"print", "sys.exit">>, <<load>>)
        ELSE Built(PrepWriter(IconService(get_url(url)), nid, KeyWallet(keystore_path)),
                   log)

create_writer_by_args(args, file, load) ==
    LET c == _get_common_args(args, file)
        yes == IF hasattr(args, "yes") THEN args["yes"][1] ELSE FALSE
        prompt == IF IsNone(args["password"]) THEN <<"getpass">> ELSE <<>>
        password == IF IsNone(args["password"]) THEN "typed" ELSE args["password"][1]
        w == create_writer(c.url, c.nid, c.keystore, password, load)
        log == <<"_get_common_args">> \o prompt \o w.log
    IN  IF w.exited
        THEN [w EXCEPT !.log = log]
        ELSE [Built(set_on_send_request(w.session, ConfirmCallback(yes)),
                    log \o <<"set_on_send_request">>)
                 EXCEPT !.registered = <<ConfirmCallback(yes)>>]

----------------------------------------------------------------------------
(* State machine *)

NoConfig == [args |-> EmptyDict, file |-> EmptyDict]
NoResolution == [url |-> "None", nid |-> 0, keystore |-> "None"]

Call(name, params, eff) ==
    [name |-> name, params |-> params] @@ eff

Init ==
    /\ pc = "start"
    /\ exit_status = 0
    /\ via = "none"
    /\ session = NoSession
    /\ op = Call("none", EmptyDict, NoEffects)
    /\ prev_gate = <<>>
    /\ rpc_calls = 0
    /\ stdout = <<>>
    /\ last_set = NoCallback
    /\ replaced = NoCallback
    /\ cfg_in = NoConfig
    /\ cfg_out = NoResolution

\* A factory call f, made by the function named name.
Construct(name, params, f) ==
    /\ pc' = IF f.exited THEN "exited" ELSE "ready"
    /\ exit_status' = f.status
    /\ via' = name
    /\ session' = f.session
    /\ op' = Call(name, params, [NoEffects EXCEPT !.log = f.log,
                 !.result = IF f.exited THEN Raise("SystemExit") ELSE Return("session")])
    /\ stdout' = stdout \o f.stdout
    /\ last_set' = IF f.registered = <<>> THEN NoCallback
                   ELSE f.registered[Len(f.registered)]
    /\ replaced' = NoCallback
    /\ UNCHANGED <<prev_gate, rpc_calls, cfg_in, cfg_out>>

ReaderArgs == { Restrict(a, DOMAIN a \ {"password", "yes"}) : a \in ArgsSet }
FileOf(args) == IF hasattr(args, "config") /\ ~IsNone(args["config"]) THEN Files
                ELSE {EmptyDict}
\* The sessions of the state machine are built from the namespaces that name
\* no url and no config file; SpecConfig below resolves all of them.
SessionArgs(S) == { a \in S : ~hasattr(a, "url") /\ ~hasattr(a, "config") }
SessionUrls == {"A"}
SessionNids == NidValues \cup {1}
SessionKeystores == KeystoreValues \cup {"ks_default"}

CreateReader ==
    /\ pc = "start"
    /\ \E url \in SessionUrls, nid \in SessionNids :
           Construct("create_reader", [url |-> url, nid |-> nid],
                     create_reader(url, nid))

CreateReaderByArgs ==
    /\ pc = "start"
    /\ \E args \in SessionArgs(ReaderArgs) : \E file \in FileOf(args) :
           Construct("create_reader_by_args", [args |-> args, file |-> file],
                     create_reader_by_args(args, file))

CreateWriter ==
    /\ pc = "start"
    /\ \E url \in SessionUrls, nid \in SessionNids, ks \in SessionKeystores,
          load \in LoadOutcomes :
           Construct("create_writer",
                     [url |-> url, nid |-> nid, keystore_path |-> ks, load |-> load],
                     create_writer(url, nid, ks, "pw", load))

CreateWriterByArgs ==
    /\ pc = "start"
    /\ \E args \in SessionArgs(ArgsSet), load \in LoadOutcomes : \E file \in FileOf(args) :
           Construct("create_writer_by_args",
                     [args |-> args, file |-> file, load |-> load],
                     create_writer_by_args(args, file, load))

SetOnSendRequest ==
    /\ pc = "ready"
    /\ \E func \in Callbacks :
        /\ session' = set_on_send_request(session, func)
        /\ last_set' = func
    /\ replaced' = on_send_request(session)
    /\ op' = Call("set_on_send_request", EmptyDict, NoEffects)
    /\ prev_gate' = op.gate
    /\ UNCHANGED <<pc, exit_status, via, rpc_calls, stdout, cfg_in, cfg_out>>

\* An operation of the session: its effects become the last call's.
Operate(name, params, eff) ==
    /\ rpc_calls < MaxRpcCalls
    /\ op' = Call(name, params, eff)
    /\ prev_gate' = op.gate
    /\ rpc_calls' = rpc_calls + Len(eff.sent) + Len(eff.queries)
    /\ UNCHANGED <<pc, exit_status, via, session, stdout, last_set, replaced,
                   cfg_in, cfg_out>>

RegisterPrep ==
    /\ pc = "ready"
    /\ session.kind = "writer"
    /\ \E params \in ParamsSet, env \in Envs :
           Operate("register_prep", params, register_prep(session, params, env))

UnregisterPrep ==
    /\ pc = "ready"
    /\ session.kind = "writer"
    /\ \E env \in Envs :
           Operate("unregister_prep", EmptyDict, unregister_prep(session, env))

SetPrep ==
    /\ pc = "ready"
    /\ session.kind = "writer"
    /\ \E params \in ParamsSet, env \in Envs :
           Operate("set_prep", params, set_prep(session, params, env))

SetGovernanceVariables ==
    /\ pc = "ready"
    /\ session.kind = "writer"
    /\ \E params \in ParamsSet, env \in Envs :
           Operate("set_governance_variables", params,
                   set_governance_variables(session, params, env))

GetPrep ==
    /\ pc = "ready"
    /\ session.kind = "reader"
    /\ \E address \in Addresses, env \in Envs :
           Operate("get_prep", [address |-> address],
                   get_prep(session, address, env))

GetPreps ==
    /\ pc = "ready"
    /\ session.kind = "reader"
    /\ \E params \in ParamsSet, env \in Envs :
           Operate("get_preps", params, get_preps(session, params, env))

GetTxResult ==
    /\ pc = "ready"
    /\ session.kind = "reader"
    /\ \E tx_hash \in TxHashes, env \in Envs :
           Operate("get_tx_result", [tx_hash |-> tx_hash],
                   get_tx_result(session, tx_hash, env))

GetTxByHash ==
    /\ pc = "ready"
    /\ session.kind = "reader"
    /\ \E tx_hash \in TxHashes, env \in Envs :
           Operate("get_tx_by_hash", [tx_hash |-> tx_hash],
                   get_tx_by_hash(session, tx_hash, env))

Next ==
    \/ CreateReader
    \/ CreateReaderByArgs
    \/ CreateWriter
    \/ CreateWriterByArgs
    \/ SetOnSendRequest
    \/ RegisterPrep
    \/ UnregisterPrep
    \/ SetPrep
    \/ SetGovernanceVariables
    \/ GetPrep
    \/ GetPreps
    \/ GetTxResult
    \/ GetTxByHash

Spec == Init /\ [][Next]_vars

----------------------------------------------------------------------------
(* Configuration resolution on its own: every CLI namespace and every       *)
(* config file, resolved by _get_common_args.                               *)

ConfigInputs ==
    { [args |-> a, file |-> f] : a \in ReaderArgs, f \in Files \cup {EmptyDict} }

InitConfig ==
    /\ pc = "start"
    /\ exit_status = 0
    /\ via = "none"
    /\ session = NoSession
    /\ op = Call("none", EmptyDict, NoEffects)
    /\ prev_gate = <<>>
    /\ rpc_calls = 0
    /\ stdout = <<>>
    /\ last_set = NoCallback
    /\ replaced = NoCallback
    /\ cfg_in \in { c \in ConfigInputs : c.file \in FileOf(c.args) }
    /\ cfg_out = NoResolution

GetCommonArgs ==
    /\ via = "none"
    /\ via' = "_get_common_args"
    /\ cfg_out' = _get_common_args(cfg_in.args, cfg_in.file)
    /\ UNCHANGED <<pc, exit_status, session, op, prev_gate, rpc_calls, stdout,
                   last_set, replaced, cfg_in>>

NextConfig == GetCommonArgs

SpecConfig == InitConfig /\ [][NextConfig]_vars

----------------------------------------------------------------------------
(* Properties of the write path *)

WriteOps == {"register_prep", "unregister_prep", "set_prep",
             "set_governance_variables"}
ReadOps == {"get_prep", "get_preps"}
Factories == {"create_reader", "create_reader_by_args", "create_writer",
              "create_writer_by_args"}

\* How often, and where first, an event occurs in the last call.
Count(ev) == Cardinality({ i \in 1..Len(op.log) : op.log[i] = ev })
Has(ev) == Count(ev) > 0
First(ev) == CHOOSE i \in 1..Len(op.log) :
                 op.log[i] = ev /\ \A j \in 1..(i - 1) : op.log[j] # ev
Before(a, b) == Has(a) /\ (Has(b) => First(a) < First(b))

\* The last call was a write operation; the slot it ran with is the
\* session's, since registering a callback is a call of its own.
IsWrite == op.name \in WriteOps
Registered == session.on_send_request # NoCallback

\* C1: a write operation whose registered hook returns false never signs,
\* never calls send_transaction, raises nothing and returns None.
C1_DeclinedWriteIsSkipped ==
    (IsWrite /\ Registered /\ op.gate = <<"False">>) =>
        /\ op.signed = <<>>
        /\ op.sent = <<>>
        /\ ~Has("sign")
        /\ ~Has("send_transaction")
        /\ op.replies = <<>>
        /\ op.result = Return("None")

C1_Witness ==
    /\ op.name = "register_prep"
    /\ Registered
    /\ Count("callback") = 1
    /\ op.lines = <<"n">>
    /\ op.gate = <<"False">>

\* C2: a write operation whose registered hook returns true signs the
\* envelope exactly once with the session's wallet; unless the signing
\* raises, it calls send_transaction exactly once, after the signing, with
\* what was signed; and when send_transaction returns, the operation returns
\* that value unchanged.
C2_ApprovedWriteSignsThenSends ==
    (IsWrite /\ Registered /\ op.gate = <<"True">>) =>
        /\ Count("sign") = 1
        /\ op.result # Raise("SignError") =>
              /\ op.signed = <<SignedTransaction(op.built[1], session.owner)>>
              /\ Count("send_transaction") = 1
              /\ First("sign") < First("send_transaction")
              /\ op.sent = op.signed
        /\ op.result = Raise("SignError") => op.sent = <<>>
        /\ op.result.kind = "return" =>
              /\ Len(op.replies) = 1
              /\ op.result = Return(op.replies[1])
        /\ op.replies = <<>> => op.result.kind = "raise"

C2_Witness ==
    /\ op.name = "set_governance_variables"
    /\ Registered
    /\ op.gate = <<"True">>
    /\ op.log = <<"get_address", "build", "callback", "print", "input", "sign",
                  "send_transaction">>
    /\ op.result = Return("resp_b")

\* C3: in any sequence of write operations, each one asks the hook exactly
\* once, before any signing or sending; it signs if and only if the hook
\* answered true, and sends only then; whatever the hook answered to the
\* operation before.
C3_EveryWriteGatedOnce ==
    IsWrite =>
        /\ Len(op.gate) = 1
        /\ Count("callback") = (IF Registered THEN 1 ELSE 0)
        /\ Len(op.shown) = Count("callback")
        /\ Has("callback") => (Before("callback", "sign")
                               /\ Before("callback", "send_transaction"))
        /\ Has("sign") <=> op.gate = <<"True">>
        /\ Has("send_transaction") <=>
              (op.gate = <<"True">> /\ op.result # Raise("SignError"))
        /\ Has("send_transaction") <=> op.sent # <<>>
        /\ Count("sign") <= 1 /\ Count("send_transaction") <= 1

C3_Witness ==
    /\ IsWrite
    /\ prev_gate = <<"False">>
    /\ op.gate = <<"True">>
    /\ Len(op.sent) = 1

\* C4: with no callback registered the hook answers false: a write operation
\* on such a writer calls no callback, signs nothing, sends nothing, raises
\* nothing and returns None.
C4_EmptySlotDenies ==
    (IsWrite /\ ~Registered) =>
        /\ op.gate = <<"False">>
        /\ ~Has("callback")
        /\ op.shown = <<>>
        /\ op.signed = <<>>
        /\ op.sent = <<>>
        /\ ~Has("sign")
        /\ ~Has("send_transaction")
        /\ op.result = Return("None")

C4_Witness ==
    /\ op.name = "unregister_prep"
    /\ via = "create_writer"
    /\ ~Registered
    /\ Len(op.built) = 1

\* C7: the envelope a write operation builds, and the one it shows the hook,
\* is addressed to the governance contract, carries the session's network id
\* and the session wallet's address as sender, and protocol version 3,
\* whatever the params.
C7_EnvelopeRouting ==
    IsWrite =>
        /\ Len(op.built) = 1
        /\ op.built[1].to = ZERO_ADDRESS
        /\ op.built[1].nid = session.nid
        /\ op.built[1].from_ = get_address(session.owner)
        /\ op.built[1].version = ProtocolVersion
        /\ op.built[1].params = op.params
        /\ \A i \in 1..Len(op.shown) :
              /\ op.shown[i].to = ZERO_ADDRESS
              /\ op.shown[i].nid = session.nid
              /\ op.shown[i].from_ = get_address(session.owner)
              /\ op.shown[i].version = ProtocolVersion

C7_Witness ==
    /\ op.name = "set_prep"
    /\ "to" \in DOMAIN op.params
    /\ Len(op.shown) = 1
    /\ session.nid = 2
    /\ session.owner = KeyWallet("ks_cli")

\* C8: register_prep builds an envelope whose value is 2000 * 10^18, the
\* three other write operations build one whose value is 0, whatever the
\* params contain.
C8_ValueByOperation ==
    IsWrite =>
        /\ Len(op.built) = 1
        /\ op.name = "register_prep" =>
              op.built[1].value = Amount(StakeCoef, StakeExp10)
        /\ op.name # "register_prep" => op.built[1].value = Amount(0, 0)
        /\ \A i \in 1..Len(op.shown) : op.shown[i].value = op.built[1].value

C8_Witness ==
    /\ op.name = "register_prep"
    /\ "value" \in DOMAIN op.params
    /\ Len(op.built) = 1
    /\ op.built[1].method = "registerPRep"
    /\ op.built[1].value = [coef |-> 2000, exp10 |-> 18]

----------------------------------------------------------------------------
(* Properties of the read path *)

IsRead == op.name \in ReadOps

\* C5 (as claimed): every get_prep and get_preps shows the hook the query
\* envelope exactly once and then issues exactly one RPC call, whose result
\* it returns, whatever the hook returns and whatever the slot holds.
C5_ReadNeverAborts ==
    IsRead =>
        /\ Len(op.shown) = 1
        /\ op.shown[1] = call_to_dict(op.built[1])
        /\ Count("call") = 1
        /\ Before("callback", "call")
        /\ op.queries = op.built
        /\ op.result.kind = "return" \/ op.result = Raise("RpcError")
        /\ op.result.kind = "return" => op.result = Return(op.replies[1])

----------------------------------------------------------------------------
(* Properties of the session factory *)

YesOf(args) == IF hasattr(args, "yes") THEN args["yes"][1] ELSE FALSE

\* C6 (as claimed): every session a factory function returns has its hook
\* registered when it is returned: a reader the print callback, a writer the
\* confirm callback.
C6_EveryFactoryRegisters ==
    (op.name \in Factories /\ pc = "ready") =>
        /\ session.kind = "reader" => session.on_send_request = PrintCallback
        /\ session.kind = "writer" => session.on_send_request.fn = "_confirm_callback"

\* C6 (amended): the sessions returned by create_reader_by_args and
\* create_writer_by_args have their hook registered when they are returned
\* (the print callback; the confirm callback with the yes flag of the args);
\* create_reader and create_writer return a session with an empty slot.
C6_ByArgsFactoriesRegister ==
    /\ op.name = "create_reader_by_args" =>
          /\ pc = "ready"
          /\ session.kind = "reader"
          /\ session.on_send_request = PrintCallback
    /\ (op.name = "create_writer_by_args" /\ pc = "ready") =>
          /\ session.kind = "writer"
          /\ session.on_send_request = ConfirmCallback(YesOf(op.params.args))
    /\ (op.name \in {"create_reader", "create_writer"} /\ pc = "ready") =>
          session.on_send_request = NoCallback

C6_Witness ==
    /\ op.name = "create_writer_by_args"
    /\ pc = "ready"
    /\ hasattr(op.params.args, "yes")
    /\ session.on_send_request = ConfirmCallback(TRUE)

\* C10: when loading the keystore fails in create_writer, the message of the
\* failure is printed, the process exits with status 1, no writer is
\* returned, and the process makes no RPC call, before or after.
C10_KeystoreFailureExits ==
    /\ (op.name \in {"create_writer", "create_writer_by_args"}
            /\ op.params.load # "ok") =>
          /\ pc = "exited"
          /\ exit_status = 1
          /\ stdout = <<op.params.load>>
          /\ Before("print", "sys.exit")
          /\ Before("KeyWallet.load", "print")
          /\ op.log[Len(op.log)] = "sys.exit"
          /\ session = NoSession
          /\ op.result = Raise("SystemExit")
    /\ (stdout # <<>> \/ pc = "exited") =>
          /\ pc = "exited"
          /\ op.name \in {"create_writer", "create_writer_by_args"}
          /\ rpc_calls = 0
          /\ op.sent = <<>> /\ op.queries = <<>>

C10_Witness ==
    /\ op.name = "create_writer_by_args"
    /\ op.params.load = "Password is wrong."
    /\ pc = "exited"
    /\ stdout = <<"Password is wrong.">>

----------------------------------------------------------------------------
(* Properties of the configuration resolution (under SpecConfig) *)

\* The value the precedence picks for a key: the CLI argument when it is
\* present and not None, else the config file's when the file is read and
\* defines the key, else the built-in default.
FileRead == hasattr(cfg_in.args, "config") /\ ~IsNone(cfg_in.args["config"])
Picked(key) ==
    IF hasattr(cfg_in.args, key) /\ cfg_in.args[key] # <<>>
    THEN cfg_in.args[key][1]
    ELSE IF FileRead /\ key \in DOMAIN cfg_in.file
    THEN cfg_in.file[key]
    ELSE get_default_config[key]

\* C9 (as claimed): for each of url, nid and keystore the resolved value is
\* the CLI argument, else the config file's value, else the default.
C9_ResolvedIsPicked ==
    via = "_get_common_args" =>
        /\ cfg_out.url = Picked("url")
        /\ cfg_out.nid = Picked("nid")
        /\ cfg_out.keystore = Picked("keystore")

\* C9 (amended): nid and keystore resolve to the CLI argument, else the
\* config file's value, else the default; url resolves to get_url of the
\* value picked in that order (a named network becomes its endpoint).
C9_ResolvedIsPickedThenGetUrl ==
    via = "_get_common_args" =>
        /\ cfg_out.url = get_url(Picked("url"))
        /\ cfg_out.nid = Picked("nid")
        /\ cfg_out.keystore = Picked("keystore")

\* defaults {url: A, nid: 1}, file {url: B}, CLI nid = 2 resolve to
\* {url: B, nid: 2}.
C9_Witness ==
    /\ via = "_get_common_args"
    /\ get_default_config.url = "A" /\ get_default_config.nid = 1
    /\ FileRead /\ cfg_in.file = [url |-> "B"]
    /\ ~hasattr(cfg_in.args, "url")
    /\ hasattr(cfg_in.args, "nid") /\ cfg_in.args["nid"] = <<2>>
    /\ hasattr(cfg_in.args, "keystore") /\ cfg_in.args["keystore"] = <<>>
    /\ cfg_out = [url |-> "B", nid |-> 2, keystore |-> "ks_default"]

----------------------------------------------------------------------------
(* Reads, lookups and the hook slot *)

LookupOps == {"get_tx_result", "get_tx_by_hash"}
WalletEvents == {"KeyWallet.load", "getpass", "get_address", "sign",
                 "send_transaction"}
\* The remote calls of the last call, and the event that ends its log.
RpcCount == Count("send_transaction") + Count("call")
            + Count("get_transaction_result") + Count("get_transaction")
LastEvent == op.log[Len(op.log)]
\* The RPC method a lookup operation uses.
LookupMethod(name) == IF name = "get_tx_result" THEN "get_transaction_result"
                      ELSE "get_transaction"

\* C11: reads never touch a wallet or keystore: create_reader and
\* create_reader_by_args load no keystore, ask for no password and always
\* return a session, whatever keystore is or is not configured; the session
\* holds no wallet; get_prep and get_preps never call get_address, never
\* sign, never call send_transaction and never fail with a wallet error.
C11_ReadsNeverTouchWallet ==
    /\ op.name \in {"create_reader", "create_reader_by_args"} =>
          /\ pc = "ready"
          /\ exit_status = 0
          /\ op.result = Return("session")
          /\ \A ev \in WalletEvents : ~Has(ev)
          /\ stdout = <<>>
    /\ session.kind = "reader" => session.owner = NoWallet
    /\ IsRead =>
          /\ \A ev \in WalletEvents : ~Has(ev)
          /\ op.signed = <<>>
          /\ op.sent = <<>>
          /\ op.result \in {Raise("TypeError"), Raise("RpcError")}
                               \cup { Return(r) : r \in Responses }

\* get_preps answers on a reader made from arguments that name no keystore.
C11_Witness ==
    /\ op.name = "get_preps"
    /\ via = "create_reader_by_args"
    /\ session.owner = NoWallet
    /\ Count("call") = 1
    /\ op.replies # <<>>
    /\ op.result = Return(op.replies[1])

\* C12: whenever the confirm callback is invoked it prints the envelope it
\* was given before anything else; with the auto-yes flag it reads no input
\* and returns true; without the flag it reads exactly one line and returns
\* false exactly when that line is "n"; and a writer made from arguments
\* without a yes attribute gets the callback with the flag not set.
C12_ConfirmCallback ==
    /\ (op.name \in WriteOps \cup ReadOps /\ op.called # <<>>
           /\ op.called[1].fn = "_confirm_callback") =>
          /\ op.printed = op.shown
          /\ Len(op.printed) = 1
          /\ Count("print") = 1
          /\ First("print") = First("callback") + 1
          /\ Has("input") => First("print") < First("input")
          /\ op.called[1].yes =>
                /\ ~Has("input")
                /\ op.lines = <<>>
                /\ IsWrite => op.gate = <<"True">>
          /\ ~op.called[1].yes =>
                /\ Count("input") = 1
                /\ Len(op.lines) = 1
                /\ IsWrite => op.gate = IF op.lines[1] = "n" THEN <<"False">>
                                        ELSE <<"True">>
    /\ (op.name = "create_writer_by_args" /\ pc = "ready"
           /\ ~hasattr(op.params.args, "yes")) =>
          session.on_send_request = ConfirmCallback(FALSE)

\* An empty line approves a write when the flag is not set.
C12_Witness ==
    /\ IsWrite
    /\ op.called = <<ConfirmCallback(FALSE)>>
    /\ op.lines = <<"">>
    /\ op.gate = <<"True">>
    /\ Has("sign")

\* C13: in a write the hook approved, a signing that fails makes the
\* operation fail with that failure, and send_transaction is never called;
\* send_transaction is only ever called after a signing that succeeded.
C13_SignFailurePropagates ==
    IsWrite =>
        /\ (Has("sign") /\ op.signed = <<>>) =>
              /\ op.result = Raise("SignError")
              /\ ~Has("send_transaction")
              /\ op.sent = <<>>
              /\ op.replies = <<>>
              /\ LastEvent = "sign"
        /\ Has("send_transaction") =>
              /\ op.signed # <<>>
              /\ First("sign") < First("send_transaction")

C13_Witness ==
    /\ op.name = "set_prep"
    /\ op.gate = <<"True">>
    /\ Count("sign") = 1
    /\ op.signed = <<>>
    /\ op.result = Raise("SignError")

\* C14: every read, write and lookup operation issues at most one RPC call;
\* when that call fails the operation fails with the same failure, nothing
\* is called after it (no second RPC call, no further hook invocation); when
\* it answers, the operation returns the answer.
C14_NoRetries ==
    op.name \in WriteOps \cup ReadOps \cup LookupOps =>
        /\ RpcCount <= 1
        /\ Len(op.sent) + Len(op.queries) = RpcCount
        /\ Count("callback") <= 1
        /\ Len(op.called) <= 1
        /\ RpcCount = 1 =>
              /\ LastEvent \in {"send_transaction", "call",
                                "get_transaction_result", "get_transaction"}
              /\ IF op.replies = <<>>
                 THEN op.result = Raise("RpcError")
                 ELSE op.result = Return(op.replies[1])

C14_Witness ==
    /\ op.name = "get_tx_by_hash"
    /\ RpcCount = 1
    /\ Len(op.queries) = 1
    /\ op.replies = <<>>
    /\ op.result = Raise("RpcError")

\* C15: the slot holds the callback registered last, and nothing else: an
\* operation invokes no callback but that one, a read or write with a
\* callback registered invokes it exactly once, and the callback it replaced
\* is not invoked.
C15_LatestCallbackOnly ==
    pc = "ready" =>
        /\ session.on_send_request = last_set
        /\ \A i \in 1..Len(op.called) : op.called[i] = last_set
        /\ (op.name \in WriteOps \cup ReadOps /\ last_set # NoCallback) =>
              op.called = <<last_set>>
        /\ replaced # last_set =>
              \A i \in 1..Len(op.called) : op.called[i] # replaced

\* The print callback replaced the confirm callback of a writer made from
\* arguments, and a write then ran the print callback.
C15_Witness ==
    /\ via = "create_writer_by_args"
    /\ IsWrite
    /\ replaced = ConfirmCallback(FALSE)
    /\ last_set = PrintCallback
    /\ op.called = <<PrintCallback>>
    /\ op.lines = <<>>

\* C16: get_tx_result and get_tx_by_hash make exactly one lookup call, for
\* the hash they were given, return what it returns (or fail as it fails),
\* invoke no hook, print nothing, read nothing and leave the slot as it was,
\* whether or not a hook is registered.
C16_LookupsBypassHook ==
    op.name \in LookupOps =>
        /\ op.log = <<LookupMethod(op.name)>>
        /\ op.queries = <<[lookup |-> LookupMethod(op.name),
                           tx_hash |-> op.params.tx_hash]>>
        /\ op.called = <<>>
        /\ op.shown = <<>>
        /\ op.printed = <<>>
        /\ op.lines = <<>>
        /\ op.gate = <<>>
        /\ op.sent = <<>>
        /\ IF op.replies = <<>> THEN op.result = Raise("RpcError")
           ELSE op.result = Return(op.replies[1])
        /\ session.on_send_request = last_set

\* A lookup answers on a session whose hook is registered.
C16_Witness ==
    /\ op.name = "get_tx_result"
    /\ Registered
    /\ op.called = <<>>
    /\ Len(op.queries) = 1
    /\ op.replies # <<>>
    /\ op.result = Return(op.replies[1])

\* C17: the envelope of every write carries the step limit 0x10000000,
\* whatever the params are; the 0x50000000 of TxHandler.call is never used.
C17_WriteStepLimit ==
    IsWrite =>
        /\ Len(op.built) = 1
        /\ op.built[1].step_limit = DefaultStepLimit
        /\ op.built[1].step_limit # TxHandlerStepLimit
        /\ \A i \in 1..Len(op.shown) : op.shown[i].step_limit = DefaultStepLimit
        /\ \A i \in 1..Len(op.sent) :
               op.sent[i].transaction.step_limit = DefaultStepLimit

\* A write whose params carry a step_limit key of their own is sent.
C17_Witness ==
    /\ IsWrite
    /\ "step_limit" \in DOMAIN op.params
    /\ Len(op.sent) = 1
    /\ op.sent[1].transaction.step_limit = DefaultStepLimit

\* C18: the gate tests truthiness: a write whose callback returns None or
\* False is skipped (nothing signed, nothing sent, None returned); with
\* _print_request registered on a writer every write prints the envelope
\* and is skipped.
C18_FalsyReturnSkips ==
    IsWrite =>
        /\ (Registered /\ op.gate \in {<<"None">>, <<"False">>}) =>
              /\ ~Has("sign")
              /\ ~Has("send_transaction")
              /\ op.signed = <<>>
              /\ op.sent = <<>>
              /\ op.result = Return("None")
        /\ session.on_send_request = PrintCallback =>
              /\ op.gate = <<"None">>
              /\ op.printed = op.shown
              /\ Len(op.printed) = 1
              /\ ~Has("sign")
              /\ ~Has("send_transaction")
              /\ op.sent = <<>>
              /\ op.result = Return("None")

C18_Witness ==
    /\ op.name = "register_prep"
    /\ session.on_send_request = PrintCallback
    /\ op.called = <<PrintCallback>>
    /\ op.gate = <<"None">>
    /\ op.result = Return("None")

\* C19: what is confirmed is what is sent: the transaction signed and sent
\* is the one built before the hook ran, and its sender, recipient, method,
\* params, nid, step limit and value are those of the envelope the hook was
\* shown.
C19_ConfirmedIsSent ==
    (IsWrite /\ op.sent # <<>>) =>
        /\ Len(op.sent) = 1
        /\ Len(op.built) = 1
        /\ Len(op.shown) = 1
        /\ op.sent = op.signed
        /\ op.sent[1].transaction = op.built[1]
        /\ op.shown[1] = to_dict(op.sent[1].transaction)
        /\ LET tx == op.sent[1].transaction
               env == op.shown[1]
           IN  /\ env["from_"] = tx.from_
               /\ env["to"] = tx.to
               /\ env["nid"] = tx.nid
               /\ env["step_limit"] = tx.step_limit
               /\ env["value"] = tx.value
               /\ env["data"].method = tx.method
               /\ env["data"].params = tx.params
        /\ First("build") < First("callback")
        /\ First("callback") < First("sign")
        /\ First("sign") < First("send_transaction")

C19_Witness ==
    /\ op.name = "set_governance_variables"
    /\ op.lines = <<"N">>
    /\ Len(op.sent) = 1
    /\ op.shown = <<to_dict(op.sent[1].transaction)>>
    /\ op.replies # <<>>
    /\ op.result = Return(op.replies[1])

====
